---- MODULE Spec2Model ----
(***************************************************************************)
(* The validation-request API of li-todd/validator (a Hono application on  *)
(* a Cloudflare KV namespace, src/unnamed/part_000) as a state machine.    *)
(*                                                                         *)
(* Strings are sequences of character codes (58 is ':', 48.. are the       *)
(* digits, 97.. the lower-case letters), so that composite keys, prefix    *)
(* scans and the lexicographic key order of the KV namespace are computed  *)
(* and not assumed.  Every await of a handler is a separate step, so that  *)
(* requests interleave exactly where the code suspends.                    *)
(***************************************************************************)
EXTENDS Integers, Sequences, FiniteSets, TLC

VARIABLES
    store,      \* RCX_VALIDATOR: the KV namespace, key -> stored value
    clock,      \* the wall clock read by new Date(), in ticks
    reqs,       \* the in-flight handler invocations, one per slot
    last,       \* the response sent most recently, with the request it answers
    started,    \* requests received so far, as counted against MaxReqs
    lastWrite,  \* history: the most recent mutation of the namespace
    cleared,    \* history: key prefixes a DELETE answered 200 for, see DeleteOne
    clearedIds  \* history: <<org, id>> pairs a DELETE answered 200 for

vars == <<store, clock, reqs, last, started, lastWrite, cleared, clearedIds>>

-----------------------------------------------------------------------------
(* Bounds of the model.                                                    *)

\* requests received in one behaviour; a request with a body that arrives
\* while another handler is suspended counts twice
MaxReqs == 4
\* ticks of the clock in one behaviour
MaxTicks == 1
\* seconds on the clock at the start, and between two ticks
Epoch == 5
ClockStep == 5

\* handler invocations that can be suspended at the same time
Slots == {1, 2}

-----------------------------------------------------------------------------
(* Strings.                                                                *)

Colon == <<58>>

\* String.prototype.startsWith, which is what a KV prefix scan tests
StartsWith(s, p) == Len(p) <= Len(s) /\ SubSeq(s, 1, Len(p)) = p

\* the order of two different strings by their character codes (the order
\* in which the KV namespace lists keys)
LexLess(s, t) ==
    \E i \in 1..(Len(t)) :
        /\ \A j \in 1..(i - 1) : j <= Len(s) /\ s[j] = t[j]
        /\ (i > Len(s) \/ (i <= Len(s) /\ s[i] < t[i]))

\* n as two decimal digits
Pad2(n) == <<48 + (n \div 10), 48 + (n % 10)>>

\* Date.prototype.toISOString, reduced to its "mm:ss" fields: fixed-width,
\* zero-padded, most significant field first, ':' between the fields
\* (the hour and the fields above it do not change within the modelled time)
toISOString(t) == Pad2((t \div 60) % 60) \o Colon \o Pad2(t % 60)

\* new Date() at the current tick
Now == Epoch + clock * ClockStep

-----------------------------------------------------------------------------
(* Inputs.                                                                 *)

\* organization path segments: "a" and "a:d" (':' is legal in a URL path
\* segment and :org matches any segment)
Orgs == {<<97>>, <<97, 58, 100>>}

\* identifiers accepted by the schema: "c" and "d:c"
Ids == {<<99>>, <<100, 58, 99>>}

\* salts accepted by the schema: "xxxxxx" and "yyyyyy"
Salts == {<<120, 120, 120, 120, 120, 120>>, <<121, 121, 121, 121, 121, 121>>}

\* JSON bodies sent to the req-validate routes: the accepted ones, an empty
\* id, a salt of five characters, and a body whose fields are not strings
ValidateBodies ==
    [typed : {TRUE}, id : Ids, salt : Salts]
        \cup {[typed |-> TRUE, id |-> <<>>, salt |-> <<120, 120, 120, 120, 120, 120>>],
              [typed |-> TRUE, id |-> <<99>>, salt |-> <<120, 120, 120, 120, 120>>],
              [typed |-> FALSE, id |-> <<>>, salt |-> <<>>]}

\* JSON bodies sent to the posts routes; title and content are given by
\* their lengths, the only thing postSchema reads of them
PostBodies ==
    {[typed |-> TRUE, title |-> 100, content |-> 1000],
     [typed |-> TRUE, title |-> 0, content |-> 1],
     [typed |-> TRUE, title |-> 101, content |-> 1],
     [typed |-> TRUE, title |-> 1, content |-> 0],
     [typed |-> TRUE, title |-> 1, content |-> 1001],
     [typed |-> FALSE, title |-> 0, content |-> 0]}

\* path identifiers of /posts/:id and results of crypto.randomUUID()
PostIds == {"p1"}

-----------------------------------------------------------------------------
(* Validation schemas.                                                     *)

TitleMin == 1
TitleMax == 100
ContentMin == 1
ContentMax == 1000
IdMin == 1
SaltMin == 6

postSchema(v) ==
    /\ v.typed
    /\ v.title >= TitleMin /\ v.title <= TitleMax
    /\ v.content >= ContentMin /\ v.content <= ContentMax

validateRequestSchema(v) ==
    /\ v.typed
    /\ Len(v.id) >= IdMin
    /\ Len(v.salt) >= SaltMin

\* parsed.error.errors: the paths of the fields that fail
postSchemaErrors(v) ==
    IF ~v.typed THEN <<"title", "content">>
    ELSE (IF v.title >= TitleMin /\ v.title <= TitleMax THEN <<>> ELSE <<"title">>)
         \o (IF v.content >= ContentMin /\ v.content <= ContentMax THEN <<>> ELSE <<"content">>)

validateRequestSchemaErrors(v) ==
    IF ~v.typed THEN <<"id", "salt">>
    ELSE (IF Len(v.id) >= IdMin THEN <<>> ELSE <<"id">>)
         \o (IF Len(v.salt) >= SaltMin THEN <<>> ELSE <<"salt">>)

\* the validator('json', ...) middleware of a route lets the body through to
\* the handler exactly when safeParse succeeds
PostsValidatorPasses(v) == postSchema(v)

\* (a validator that forgets the salt)
ReqValidatorIdOnly(v) == v.typed /\ Len(v.id) >= IdMin

ReqValidatorPasses(v) == validateRequestSchema(v)

-----------------------------------------------------------------------------
(* Responses.                                                              *)

NoBody == [id |-> <<>>, salt |-> <<>>]

Json(status, ok, message, errors, body) ==
    [status |-> status, ok |-> ok, message |-> message, errors |-> errors, body |-> body]

InvalidInput(errors) == Json(400, "false", "Invalid input", errors, NoBody)

\* c.json({id, salt}): status 200, no ok field
IdSalt(id, salt) == Json(200, "absent", "", <<>>, [id |-> id, salt |-> salt])

NotFound == Json(404, "false", "No data found for organization", <<"Organization not found">>, NoBody)

Failed(message) == Json(500, "false", message, <<"storage error">>, NoBody)

-----------------------------------------------------------------------------
(* The KV namespace.                                                       *)

NoObj == [org |-> <<>>, id |-> <<>>, salt |-> <<>>, timestamp |-> <<>>]

\* get() of a key that is not stored
Null == [text |-> "null", obj |-> NoObj]

\* a stored text that is not JSON
Garbage == [text |-> "garbage", obj |-> NoObj]

JSONstringify(obj) == [text |-> "json", obj |-> obj]

\* JSON.parse throws a SyntaxError on a text that is not JSON
JSONparseThrows(v) == v.text # "json"

JSONparse(v) == v.obj

\* if (value): null is falsy, every non-empty text is truthy
Truthy(v) == v.text # "null"

KVget(k) == IF k \in DOMAIN store THEN store[k] ELSE Null

KVput(k, v) == [x \in DOMAIN store \cup {k} |-> IF x = k THEN v ELSE store[x]]

KVdelete(k) == [x \in DOMAIN store \ {k} |-> store[x]]

\* a set of keys in the order of their character codes
RECURSIVE Sorted(_)
Sorted(S) ==
    IF S = {} THEN <<>>
    ELSE LET m == CHOOSE x \in S : \A y \in S \ {x} : LexLess(x, y)
         IN  <<m>> \o Sorted(S \ {m})

\* list({prefix}).keys: the stored keys that start with prefix, in order
KVlist(prefix) == Sorted({k \in DOMAIN store : StartsWith(k, prefix)})

\* `${org}:${data.id}:${timestamp}`
KeyOf(org, id, timestamp) == org \o Colon \o id \o Colon \o timestamp

\* `${org}:`
OrgPrefix(org) == org \o Colon

\* `${org}:${data.id}:`
IdPrefix(org, id) == org \o Colon \o id \o Colon

-----------------------------------------------------------------------------
(* State.                                                                  *)

NoData == [id |-> <<>>, salt |-> <<>>]

NoValue == [typed |-> FALSE, id |-> <<>>, salt |-> <<>>]

NoWrite == [op |-> "none", key |-> <<>>, obj |-> NoObj]

\* the records of the namespace that were created under org
OrgRecords(org) ==
    {store[k].obj : k \in {x \in DOMAIN store : ~JSONparseThrows(store[x]) /\ store[x].obj.org = org}}

\* a slot with no suspended handler.  Of a suspended handler the slot holds
\* the locals (org, data, timestamp, key, pending) and, as history,
\*   prevWrite the latest mutation of the namespace when the handler listed
\*   clean     no mutation took effect since the handler listed
\*   putSince  a key under the listed prefix was put since the handler listed
\*   seen      the records created under org that were stored when it listed
\*   removed   the values its deletes removed
Idle ==
    [pc |-> "idle", org |-> <<>>, data |-> NoData, timestamp |-> <<>>, key |-> <<>>,
     pending |-> {}, prevWrite |-> NoWrite, clean |-> TRUE, putSince |-> FALSE,
     seen |-> {}, removed |-> {}]

\* a response together with the request it answers (route, org, value) and
\* what its handler did:
\*   ran       the route handler was entered (the validator passed the body)
\*   threw     a call of the namespace threw
\*   latest    the key the GET handler fetched, fetched the value it got
\*   prevWrite, clean, seen, removed: as in the slot
Reply(route, org, value, ran, resp) ==
    [route |-> route, org |-> org, value |-> value, ran |-> ran, resp |-> resp,
     threw |-> FALSE, latest |-> <<>>, fetched |-> Null, prevWrite |-> NoWrite,
     clean |-> TRUE, seen |-> {}, removed |-> {}]

AsValue(data) == [typed |-> TRUE, id |-> data.id, salt |-> data.salt]

Init ==
    /\ store = <<>>
    /\ clock = 0
    /\ reqs = [s \in Slots |-> Idle]
    /\ last = Reply("none", <<>>, NoValue, FALSE, Json(0, "absent", "", <<>>, NoBody))
    /\ started = 0
    /\ lastWrite = NoWrite
    /\ cleared = {}
    /\ clearedIds = {}

\* a mutation of the namespace ends the "clean" window of every handler
\* suspended between its list and its end
Dirtied(rs) == [s \in Slots |-> [rs[s] EXCEPT !.clean = FALSE]]

\* a put of key is remembered by every DELETE handler that listed a prefix
\* of key and has not answered yet
PutSeen(rs, key) ==
    [s \in Slots |->
        IF rs[s].pc = "deleting" /\ StartsWith(key, rs[s].key)
        THEN [rs[s] EXCEPT !.putSince = TRUE]
        ELSE rs[s]]

Busy == \E t \in Slots : reqs[t].pc # "idle"

\* what a request arriving now counts against MaxReqs
Cost(hasBody) == IF hasBody /\ Busy THEN 2 ELSE 1

\* a request is taken by the first free slot
CanStart(s, hasBody) ==
    /\ started + Cost(hasBody) <= MaxReqs
    /\ reqs[s].pc = "idle"
    /\ \A t \in Slots : t < s => reqs[t].pc # "idle"

\* the clock advances between events
Tick ==
    /\ clock < MaxTicks
    /\ clock' = clock + 1
    /\ UNCHANGED <<store, reqs, last, started, lastWrite, cleared, clearedIds>>

-----------------------------------------------------------------------------
(* POST /api/:org/req-validate                                             *)

\* the validator and the handler up to its await: the timestamp is read and
\* the key built before the put is awaited
PostReqValidate(s, org, value) ==
    /\ CanStart(s, TRUE)
    /\ started' = started + Cost(TRUE)
    /\ IF ~ReqValidatorPasses(value)
       THEN /\ last' = Reply("POST req-validate", org, value, FALSE,
                             InvalidInput(validateRequestSchemaErrors(value)))
            /\ UNCHANGED reqs
       ELSE LET timestamp == toISOString(Now)
            IN  /\ reqs' = [reqs EXCEPT ![s] =
                     [Idle EXCEPT !.pc = "put", !.org = org,
                                  !.data = [id |-> value.id, salt |-> value.salt],
                                  !.timestamp = timestamp,
                                  !.key = KeyOf(org, value.id, timestamp)]]
                /\ UNCHANGED last
    /\ UNCHANGED <<store, clock, lastWrite, cleared, clearedIds>>

\* the put takes effect, or throws, and the handler answers
PostPut(s, ok) ==
    LET r == reqs[s]
        obj == [org |-> r.org, id |-> r.data.id, salt |-> r.data.salt,
                timestamp |-> r.timestamp]
    IN  /\ r.pc = "put"
        /\ IF ok
           THEN /\ store' = KVput(r.key, JSONstringify(obj))
                /\ lastWrite' = [op |-> "put", key |-> r.key, obj |-> obj]
                /\ cleared' = {p \in cleared : ~StartsWith(r.key, p)}
                /\ clearedIds' = {}
                /\ reqs' = [Dirtied(PutSeen(reqs, r.key)) EXCEPT ![s] = Idle]
                /\ last' = Reply("POST req-validate", r.org, AsValue(r.data), TRUE,
                                 IdSalt(r.data.id, r.data.salt))
           ELSE /\ reqs' = [reqs EXCEPT ![s] = Idle]
                /\ last' = [Reply("POST req-validate", r.org, AsValue(r.data), TRUE,
                                  Failed("Validation failed")) EXCEPT !.threw = TRUE]
                /\ UNCHANGED <<store, lastWrite, cleared, clearedIds>>
        /\ UNCHANGED <<clock, started>>

-----------------------------------------------------------------------------
(* GET /api/:org/req-validate                                              *)

\* the handler up to the result of list(): 404 on an empty listing, otherwise
\* the get of the last listed key is awaited
GetList(s, org, ok) ==
    /\ CanStart(s, FALSE)
    /\ started' = started + Cost(FALSE)
    /\ LET keys == KVlist(OrgPrefix(org))
           reply == Reply("GET req-validate", org, NoValue, TRUE, NotFound)
       IN  IF ~ok
           THEN /\ last' = [reply EXCEPT !.resp = Failed("Failed to fetch request"),
                                         !.threw = TRUE]
                /\ UNCHANGED reqs
           ELSE IF Len(keys) > 0
           THEN /\ reqs' = [reqs EXCEPT ![s] =
                     [Idle EXCEPT !.pc = "fetch", !.org = org,
                                  !.key = keys[Len(keys)],
                                  !.prevWrite = lastWrite,
                                  !.seen = OrgRecords(org)]]
                /\ UNCHANGED last
           ELSE /\ last' = [reply EXCEPT !.prevWrite = lastWrite,
                                         !.seen = OrgRecords(org)]
                /\ UNCHANGED reqs
    /\ UNCHANGED <<store, clock, lastWrite, cleared, clearedIds>>

\* (a handler without the if (value) test: JSON.parse(null) is null, and
\* reading its id throws)
GetResponseUntested(value) ==
    IF Truthy(value) /\ ~JSONparseThrows(value)
    THEN IdSalt(JSONparse(value).id, JSONparse(value).salt)
    ELSE Failed("Failed to fetch request")

\* the response of the handler once get() returned value
GetResponse(value) ==
    IF Truthy(value)
    THEN IF JSONparseThrows(value)
         THEN Failed("Failed to fetch request")
         ELSE IdSalt(JSONparse(value).id, JSONparse(value).salt)
    ELSE NotFound

\* get() of the latest key returns, or throws, and the handler answers
GetFetch(s, ok) ==
    LET r == reqs[s]
        value == KVget(r.key)
        reply == [Reply("GET req-validate", r.org, NoValue, TRUE, NotFound)
                    EXCEPT !.latest = r.key, !.prevWrite = r.prevWrite,
                           !.clean = r.clean, !.seen = r.seen]
    IN  /\ r.pc = "fetch"
        /\ reqs' = [reqs EXCEPT ![s] = Idle]
        /\ last' = IF ok
                   THEN [reply EXCEPT !.resp = GetResponse(value), !.fetched = value]
                   ELSE [reply EXCEPT !.resp = Failed("Failed to fetch request"),
                                      !.threw = TRUE]
        /\ UNCHANGED <<store, clock, started, lastWrite, cleared, clearedIds>>

-----------------------------------------------------------------------------
(* DELETE /api/:org/req-validate                                           *)

\* (a handler that deletes the first listed key only)
ToDeleteFirst(keys) == {keys[1]}

\* list.keys.map(key => delete(key.name)): one delete per listed key
ToDelete(keys) == {keys[i] : i \in 1..Len(keys)}

\* the validator and the handler up to the result of list(): 404 on an empty
\* listing, otherwise the deletes are issued and Promise.all awaited
DeleteList(s, org, value, ok) ==
    /\ CanStart(s, TRUE)
    /\ started' = started + Cost(TRUE)
    /\ LET reply == Reply("DELETE req-validate", org, value, TRUE, NotFound)
       IN  IF ~ReqValidatorPasses(value)
           THEN /\ last' = [reply EXCEPT !.ran = FALSE,
                               !.resp = InvalidInput(validateRequestSchemaErrors(value))]
                /\ UNCHANGED reqs
           ELSE IF ~ok
           THEN /\ last' = [reply EXCEPT !.resp = Failed("Failed to delete request"),
                                         !.threw = TRUE]
                /\ UNCHANGED reqs
           ELSE LET keys == KVlist(IdPrefix(org, value.id))
                IN  IF Len(keys) > 0
                    THEN /\ reqs' = [reqs EXCEPT ![s] =
                              [Idle EXCEPT !.pc = "deleting", !.org = org,
                                           !.data = [id |-> value.id, salt |-> value.salt],
                                           !.key = IdPrefix(org, value.id),
                                           !.pending = ToDelete(keys),
                                           !.seen = OrgRecords(org)]]
                         /\ UNCHANGED last
                    ELSE /\ last' = [reply EXCEPT !.seen = OrgRecords(org)]
                         /\ UNCHANGED reqs
    /\ UNCHANGED <<store, clock, lastWrite, cleared, clearedIds>>

\* (a handler that answers with the salt of a stored record of that id)
DeleteResponseStored(data) ==
    LET hit == {k \in DOMAIN store : store[k].obj.id = data.id}
    IN  IF hit = {} THEN IdSalt(data.id, data.salt)
        ELSE IdSalt(data.id, store[CHOOSE k \in hit : TRUE].obj.salt)

\* what the handler answers when every delete has succeeded
DeleteResponse(data) == IdSalt(data.id, data.salt)

\* (a handler that awaits Promise.allSettled and ignores the rejections)
DeleteOutcomeSettled(data, ok) == DeleteResponse(data)

\* what the handler answers when Promise.all settles: resolved (ok) or
\* rejected into the catch block
DeleteOutcome(data, ok) ==
    IF ok THEN DeleteResponse(data) ELSE Failed("Failed to delete request")

\* the slot of a DELETE after one of its deletes settled
AfterDelete(r, pending, removed, pc) ==
    IF pending = {} THEN Idle
    ELSE [r EXCEPT !.pc = pc, !.pending = pending, !.removed = removed, !.clean = FALSE]

\* one of the issued deletes settles, in any order.  Promise.all resolves when
\* the last one succeeds (200 with the payload) and rejects as soon as one
\* fails (500); the deletes still outstanding after a rejection are not
\* awaited ("orphan") and nothing is put back
DeleteOne(s, k, ok) ==
    LET r == reqs[s]
        pending == r.pending \ {k}
        removed == IF ok /\ k \in DOMAIN store THEN r.removed \cup {store[k]} ELSE r.removed
        answers == r.pc = "deleting" /\ (~ok \/ pending = {})
        done == ok /\ answers
    IN  /\ r.pc \in {"deleting", "orphan"}
        /\ k \in r.pending
        /\ IF ok
           THEN /\ store' = KVdelete(k)
                /\ lastWrite' = [op |-> "delete", key |-> k, obj |-> NoObj]
                /\ reqs' = [Dirtied(reqs) EXCEPT ![s] =
                               AfterDelete(r, pending, removed, r.pc)]
           ELSE /\ reqs' = [reqs EXCEPT ![s] = AfterDelete(r, pending, removed, "orphan")]
                /\ UNCHANGED <<store, lastWrite>>
        /\ last' = IF answers
                   THEN [Reply("DELETE req-validate", r.org, AsValue(r.data), TRUE,
                               DeleteOutcome(r.data, ok))
                           EXCEPT !.threw = ~ok, !.seen = r.seen, !.removed = removed]
                   ELSE last
        /\ cleared' = IF done /\ ~r.putSince THEN cleared \cup {r.key} ELSE cleared
        /\ clearedIds' = IF done THEN clearedIds \cup {<<r.org, r.data.id>>} ELSE clearedIds
        /\ UNCHANGED <<clock, started>>

\* the runtime drops the deletes still outstanding after the response
Abandon(s) ==
    /\ reqs[s].pc = "orphan"
    /\ reqs' = [reqs EXCEPT ![s] = Idle]
    /\ UNCHANGED <<store, clock, last, started, lastWrite, cleared, clearedIds>>

-----------------------------------------------------------------------------
(* The posts routes and the health check: no await, no storage.            *)

Post(id, data, createdAt, updatedAt) ==
    [id |-> id, title |-> data.title, content |-> data.content,
     createdAt |-> createdAt, updatedAt |-> updatedAt]

Answer(route, value, ran, resp, hasBody) ==
    /\ started + Cost(hasBody) <= MaxReqs
    /\ started' = started + Cost(hasBody)
    /\ last' = Reply(route, <<>>, value, ran, resp)
    /\ UNCHANGED <<store, clock, reqs, lastWrite, cleared, clearedIds>>

\* POST /posts
PostsCreate(value, uuid) ==
    IF ~PostsValidatorPasses(value)
    THEN Answer("POST posts", value, FALSE, InvalidInput(postSchemaErrors(value)), TRUE)
    ELSE Answer("POST posts", value, TRUE,
                Json(201, "true", "", <<>>,
                     Post(uuid, value, toISOString(Now), toISOString(Now))), TRUE)

\* GET /posts
PostsList == Answer("GET posts", NoValue, TRUE, Json(200, "true", "", <<>>, <<>>), FALSE)

\* GET /posts/:id
PostsGet(id) ==
    Answer("GET posts/:id", NoValue, TRUE, Json(200, "true", "", <<>>, "null"), FALSE)

\* PUT /posts/:id
PostsUpdate(id, value) ==
    IF ~PostsValidatorPasses(value)
    THEN Answer("PUT posts/:id", value, FALSE, InvalidInput(postSchemaErrors(value)), TRUE)
    ELSE Answer("PUT posts/:id", value, TRUE,
                Json(200, "true", "", <<>>,
                     Post(id, value, toISOString(Now), toISOString(Now))), TRUE)

\* DELETE /posts/:id
PostsDelete(id) ==
    Answer("DELETE posts/:id", NoValue, TRUE,
           Json(200, "true", "Post deleted successfully", <<>>, "null"), FALSE)

\* GET /api/health
Health ==
    Answer("GET health", NoValue, TRUE,
           Json(200, "true", "", <<>>, [status |-> "healthy", version |-> "1.0.0"]), FALSE)

-----------------------------------------------------------------------------
(* The application.                                                        *)

ReqValidateRoutes ==
    \/ \E s \in Slots, org \in Orgs, value \in ValidateBodies : PostReqValidate(s, org, value)
    \/ \E s \in Slots, ok \in BOOLEAN : PostPut(s, ok)
    \/ \E s \in Slots, org \in Orgs, ok \in BOOLEAN : GetList(s, org, ok)
    \/ \E s \in Slots, ok \in BOOLEAN : GetFetch(s, ok)
    \/ \E s \in Slots, org \in Orgs, value \in ValidateBodies, ok \in BOOLEAN :
           DeleteList(s, org, value, ok)
    \/ \E s \in Slots, ok \in BOOLEAN : \E k \in reqs[s].pending : DeleteOne(s, k, ok)
    \/ \E s \in Slots : Abandon(s)

Next ==
    \/ Tick
    \/ ReqValidateRoutes
    \/ \E value \in PostBodies, uuid \in PostIds : PostsCreate(value, uuid)
    \/ PostsList
    \/ \E id \in PostIds : PostsGet(id)
    \/ \E id \in PostIds, value \in PostBodies : PostsUpdate(id, value)
    \/ \E id \in PostIds : PostsDelete(id)
    \/ Health

Spec == Init /\ [][Next]_vars

\* The namespace is a binding to a store that outlives the application and
\* is writable from outside it: another writer replaces a stored value by a
\* text that is not JSON.
ExternalPut(k) ==
    /\ started < MaxReqs
    /\ started' = started + 1
    /\ k \in DOMAIN store
    /\ store' = KVput(k, Garbage)
    /\ lastWrite' = [op |-> "external", key |-> k, obj |-> NoObj]
    /\ reqs' = Dirtied(reqs)
    /\ UNCHANGED <<clock, last, cleared, clearedIds>>

NextShared ==
    \/ Tick
    \/ ReqValidateRoutes
    \/ \E k \in DOMAIN store : ExternalPut(k)

SpecShared == Init /\ [][NextShared]_vars

-----------------------------------------------------------------------------
(* Properties.                                                             *)

GetRoute == "GET req-validate"
DeleteRoute == "DELETE req-validate"
PostRoute == "POST req-validate"

\* Date.parse of a timestamp: the instant it denotes
Instant(ts) == ((ts[1] - 48) * 10 + (ts[2] - 48)) * 60 + (ts[4] - 48) * 10 + (ts[5] - 48)

IdSaltOf(obj) == [id |-> obj.id, salt |-> obj.salt]

\* C1: a GET that lists right after a successful POST of the same
\* organization put its record, with no other write before the GET ends and
\* no storage call throwing, answers 200 with the {id, salt} of that POST.
\* (Stated for the GETs that fetch a record of their own organization, so
\* that it does not rest on C10.)
C1_CreateThenList ==
    (/\ last.route = GetRoute
     /\ ~last.threw
     /\ last.clean
     /\ last.prevWrite.op = "put"
     /\ last.prevWrite.obj.org = last.org
     /\ last.fetched.obj.org = last.org)
        => (/\ last.resp.status = 200
            /\ last.resp.body = IdSaltOf(last.prevWrite.obj))

C3_KeyOrderIsChronological ==
    \A org \in Orgs : \A k1, k2 \in DOMAIN store :
        (/\ StartsWith(k1, OrgPrefix(org))
         /\ StartsWith(k2, OrgPrefix(org))
         /\ store[k1].obj.org = org
         /\ store[k2].obj.org = org
         /\ Instant(store[k1].obj.timestamp) < Instant(store[k2].obj.timestamp))
            => LexLess(k1, k2)

\* C4: when the records created under an organization all carry the same id
\* and there are at least two of them, with different salts and timestamps,
\* a GET of that organization (no write while it runs, no storage call
\* throwing) answers 200 with the {id, salt} of the latest of them.
C4_LatestOfSameId ==
    (/\ last.route = GetRoute
     /\ ~last.threw
     /\ last.clean
     /\ Cardinality(last.seen) >= 2
     /\ \A p, q \in last.seen :
            p.id = q.id /\ (p # q => p.timestamp # q.timestamp /\ p.salt # q.salt))
        => LET newest == CHOOSE r \in last.seen :
                             \A q \in last.seen : Instant(q.timestamp) <= Instant(r.timestamp)
           IN  /\ last.resp.status = 200
               /\ last.resp.body = IdSaltOf(newest)

\* C5: a GET, or a DELETE with a valid body, of an organization under which
\* no record is stored answers 404 with errors ['Organization not found'],
\* whatever the other organizations hold.
C5_UnknownOrgNotFound ==
    (/\ last.route \in {GetRoute, DeleteRoute}
     /\ last.ran
     /\ ~last.threw
     /\ last.clean
     /\ last.seen = {})
        => (/\ last.resp.status = 404
            /\ last.resp.errors = <<"Organization not found">>)

BodyRoutes == {"POST posts", "PUT posts/:id", PostRoute, DeleteRoute}

FailsSchema(route, value) ==
    IF route \in {"POST posts", "PUT posts/:id"}
    THEN ~postSchema(value)
    ELSE ~validateRequestSchema(value)

\* C6: a request to a body-validated route whose body fails the schema is
\* answered 400 'Invalid input' without the route handler being entered, and
\* the step that answers 400 leaves the namespace as it was.
C6_InvalidBodyRejected ==
    /\ []((last.route \in BodyRoutes /\ FailsSchema(last.route, last.value))
            => (/\ last.resp.status = 400
                /\ last.resp.message = "Invalid input"
                /\ ~last.ran))
    /\ [][(started' # started /\ reqs' = reqs /\ last'.resp.status = 400)
            => (store' = store /\ ~last'.ran)]_vars

\* a DELETE with a salt of five characters was answered 400 while the
\* namespace holds a record under the prefix the body names
C6_Witness ==
    /\ last.route = DeleteRoute
    /\ last.resp.status = 400
    /\ Len(last.value.id) >= IdMin
    /\ \E k \in DOMAIN store : StartsWith(k, IdPrefix(last.org, last.value.id))

\* the GET handler listed a key and its get() returned without throwing
Fetched == last.route = GetRoute /\ ~last.threw /\ last.latest # <<>>

C8_DeleteFailureIs500 ==
    /\ []((last.route = DeleteRoute /\ last.threw)
            => (last.resp.status = 500 /\ last.resp.message = "Failed to delete request"))
    /\ [][(last' # last /\ last'.route = DeleteRoute /\ last'.threw)
            => \A v \in last'.removed : \A k \in DOMAIN store' : store'[k] # v]_vars

\* partial deletion: a DELETE answered 500 after removing a record, and a key
\* of its prefix is still stored
C8_Witness ==
    /\ last.route = DeleteRoute
    /\ last.resp.status = 500
    /\ last.removed # {}
    /\ \E k \in DOMAIN store : StartsWith(k, IdPrefix(last.org, last.value.id))

C10_OrgIsolation ==
    /\ (last.route = GetRoute /\ last.resp.status = 200)
            => last.fetched.obj.org = last.org
    /\ \A v \in last.removed : v.obj.org = last.org
    /\ \A s \in Slots : \A v \in reqs[s].removed : v.obj.org = reqs[s].org

====
